---- MODULE Spec2Model ----
(***************************************************************************)
(* Model of the MobileLink API client of the generac integration           *)
(* (custom_components/generac/api.py).  One GeneracApiClient is built from *)
(* a credential choice; the periodic caller invokes async_get_data one     *)
(* call at a time.  Every HTTP request is one step whose response is       *)
(* chosen by the server.  log, passes and result are history variables     *)
(* that record the requests, the passes and the outcome of the call in     *)
(* progress (or of the last call).                                         *)
(***************************************************************************)
EXTENDS Integers, Sequences, FiniteSets, TLC

----------------------------------------------------------------------------
(* Bounds of the model *)

MaxDevices == 2
MaxId == 2
MaxPasses == 3
MaxCalls == 2
MaxProps == 3

----------------------------------------------------------------------------
(* Values *)

\* Python None in a slot that otherwise holds a string
None == "None"

API_BASE == "https://app.mobilelinkgen.com/api"
LOGIN_BASE == "https://generacconnectivity.b2clogin.com/generacconnectivity.onmicrosoft.com/B2C_1A_MobileLink_SignIn"

BROWSER_UA == "Mozilla/5.0 (Windows NT 10.0; Win64; x64) AppleWebKit/537.36 (KHTML, like Gecko) Chrome/122.0.0.0 Safari/537.36"

\* Constructor arguments: "" stands for an absent (None or empty) argument
Usernames == {"", "user@example.com"}
Passwords == {"", "hunter2"}
CookieStrings == {"", "sid=abc"}
AuthTokens == {"", "jwt"}

CsrfTokens == {"c1", "c2"}
DetailPayloads == {"d1", "d2"}
Statuses == {200, 204, 401, 500}

\* JSON values carried by a response body
NoneVal == [t |-> "null", list |-> <<>>, obj |-> ""]
BadJson == [t |-> "bad", list |-> <<>>, obj |-> ""]
ListVal(l) == [t |-> "list", list |-> l, obj |-> ""]
ObjVal(d) == [t |-> "obj", list |-> <<>>, obj |-> d]
\* The text of an HTML page, as the page record defined below
HtmlVal(p) == [t |-> "html", list |-> <<>>, obj |-> "", page |-> p]

\* Apparatus entries of a device list: id and type (0 = generator)
ApparatusSet == [apparatusId : 1..MaxId, type : {0, 1}]

\* Device lists the server can answer with: at most MaxDevices entries with
\* pairwise distinct ids
DeviceLists ==
    UNION { { l \in [1..n -> ApparatusSet] :
                \A i, j \in 1..n : i # j => l[i].apparatusId # l[j].apparatusId }
            : n \in 0..MaxDevices }

\* A response of the HTTP transport: net = "fail" is an exception of the
\* network call, otherwise status and body are the server's answer.
Resp(net, status, body) == [net |-> net, status |-> status, body |-> body]
FailResp == Resp("fail", 0, NoneVal)

ErrorResponses == {FailResp} \cup { Resp("ok", s, NoneVal) : s \in Statuses \ {200} }
ListResponses ==
    ErrorResponses \cup { Resp("ok", 200, b) : b \in {NoneVal, BadJson} \cup { ListVal(l) : l \in DeviceLists } }
DetailResponses ==
    ErrorResponses \cup { Resp("ok", 200, b) : b \in {NoneVal, BadJson} \cup { ObjVal(d) : d \in DetailPayloads } }

\* HTML pages of the login flow, reduced to what the client looks at: the
\* presence of a form, of input[name=state] and input[name=code], and the
\* "var SETTINGS = ...;" line with its csrf and transId members.
Page(f, s, c, st, csrf, tid) ==
    [form |-> f, state |-> s, code |-> c, settings |-> st, csrf |-> csrf, transId |-> tid]
SignInPages ==
    { Page(TRUE, TRUE, TRUE, FALSE, None, None),
      Page(TRUE, FALSE, TRUE, TRUE, "c1", "t1"),
      Page(FALSE, FALSE, FALSE, TRUE, "c1", "t1"),
      Page(FALSE, FALSE, FALSE, TRUE, "c2", "t1"),
      Page(FALSE, FALSE, FALSE, TRUE, None, "t1"),
      Page(FALSE, FALSE, FALSE, TRUE, "c1", None),
      Page(FALSE, FALSE, FALSE, FALSE, None, None) }
ConfirmPages ==
    { Page(TRUE, TRUE, TRUE, FALSE, None, None),
      Page(TRUE, TRUE, FALSE, FALSE, None, None),
      Page(FALSE, FALSE, FALSE, FALSE, None, None) }

\* Self-Asserted answers: HTTP status and the status member of the body
SelfAssertedResponses ==
    { [net |-> "ok", status |-> 200, sa |-> "200"],
      [net |-> "ok", status |-> 200, sa |-> "400"],
      [net |-> "ok", status |-> 500, sa |-> ""],
      [net |-> "fail", status |-> 0, sa |-> ""] }

----------------------------------------------------------------------------
(* State *)

VARIABLES
    username, password, cookies, auth_token,   \* constructor arguments
    auth_method, headers,                       \* fixed by __init__
    logged_in, csrf,                            \* session state
    pc,                                         \* position of the call
    apparatuses, idx, data,                     \* locals of get_generator_data
    sign_in_config,                             \* local of login
    log, passes, result, calls,                 \* history of the calls
    rawStr, fmtIdx, ves, parsed,                \* parseDatetime of sensor.py
    properties, sensor_class, native,           \* native_value of a sensor
    flow                                        \* the GeneracFlowHandler

vars == << username, password, cookies, auth_token, auth_method, headers,
           logged_in, csrf, pc, apparatuses, idx, data, sign_in_config,
           log, passes, result, calls, rawStr, fmtIdx, ves, parsed,
           properties, sensor_class, native, flow >>

config == << username, password, cookies, auth_token, auth_method, headers >>
creds == << username, password, cookies, auth_token, auth_method >>
locals == << apparatuses, idx, data >>
client == << username, password, cookies, auth_token, auth_method, headers,
             logged_in, csrf, pc, apparatuses, idx, data, sign_in_config,
             log, passes, result, calls >>
parse == << rawStr, fmtIdx, ves, parsed >>
lookup == << properties, sensor_class, native >>
sensor == << rawStr, fmtIdx, ves, parsed, properties, sensor_class, native >>

----------------------------------------------------------------------------
(* __init__ *)

\* Variant of AuthMethod: cookies are looked at before the token
AuthMethodCookiesFirst(tok, ck) ==
    IF ck # "" THEN "cookies"
    ELSE IF tok # "" THEN "token"
    ELSE "username_password"

\* The authentication method: a token wins over cookies, cookies over
\* username and password.
AuthMethod(tok, ck) ==
    IF tok # "" THEN "token"
    ELSE IF ck # "" THEN "cookies"
    ELSE "username_password"

TokenHeaders(tok) ==
    [ n \in {"Host", "Accept", "Authorization", "User-Agent", "Accept-Language"} |->
        CASE n = "Host" -> "app.mobilelinkgen.com"
          [] n = "Accept" -> "application/json"
          [] n = "Authorization" -> "Bearer " \o tok
          [] n = "User-Agent" -> "mobilelink/75633 CFNetwork/3826.600.41 Darwin/24.6.0"
          [] n = "Accept-Language" -> "en-US,en;q=0.9" ]

BrowserHeaders(names, ck) ==
    [ n \in names |->
        CASE n = "User-Agent" -> BROWSER_UA
          [] n = "Accept" -> "application/json, text/plain, */*"
          [] n = "Accept-Language" -> "en-US,en;q=0.9"
          [] n = "Accept-Encoding" -> "gzip, deflate, br"
          [] n = "Connection" -> "keep-alive"
          [] n = "Cookie" -> ck ]

BrowserHeaderNames ==
    {"User-Agent", "Accept", "Accept-Language", "Accept-Encoding", "Connection"}

\* self._headers as built by the constructor
InitHeaders(tok, ck) ==
    IF AuthMethod(tok, ck) = "token" THEN TokenHeaders(tok)
    ELSE IF AuthMethod(tok, ck) = "cookies"
         THEN BrowserHeaders(BrowserHeaderNames \cup {"Cookie"}, ck)
         ELSE BrowserHeaders(BrowserHeaderNames, ck)

\* Variant of InitLoggedIn: the flag starts false in every mode
InitLoggedInNever(tok, ck) == FALSE

\* self._logged_in after construction: JWT tokens are pre-authenticated
InitLoggedIn(tok, ck) == AuthMethod(tok, ck) = "token"

NoResult == [kind |-> "none", exc |-> "", isNone |-> FALSE, map |-> <<>>]
Running == [kind |-> "running", exc |-> "", isNone |-> FALSE, map |-> <<>>]
NoConfig == [csrf |-> None, transId |-> None]

\* No call of parseDatetime is in progress
NoRaw == [date |-> "", frac |-> "", zone |-> ""]
NoDatetime == [date |-> "", microsecond |-> 0, utcoffset |-> 0]
NoParse == [kind |-> "none", fmt |-> "", value |-> NoDatetime, text |-> "", args |-> <<>>]
ParseIdle ==
    /\ rawStr = NoRaw
    /\ fmtIdx = 0
    /\ ves = <<>>
    /\ parsed = NoParse

\* Property values: JSON null, a number, or the decimal string of a number
NullValue == [t |-> "null", n |-> 0]
Num(n) == [t |-> "num", n |-> n]
Str(n) == [t |-> "str", n |-> n]
\* native_value has not been read
Pending == [t |-> "pending", n |-> 0]
\* aparatus_detail.properties: None or a list of properties
NoProperties == [isNone |-> TRUE, list |-> <<>>]
Properties(l) == [isNone |-> FALSE, list |-> l]

\* No sensor is being read
LookupIdle ==
    /\ properties = NoProperties
    /\ sensor_class = ""
    /\ native = Pending

SensorIdle == ParseIdle /\ LookupIdle

\* The config flow: pc is "start" before the flow is opened, "form" while a
\* form is shown, "testing" inside _test_credentials and "created" once the
\* entry exists; step_id is the form shown, errors the value of
\* _errors["base"] ("" when unset), auth_method is _auth_method.
NoInput == [username |-> "", password |-> "", cookies |-> "", auth_token |-> ""]
NoEntry == [title |-> "", data |-> << >>]
Flow(p, step, err, method, input, e) ==
    [pc |-> p, step_id |-> step, errors |-> err, auth_method |-> method,
     user_input |-> input, entry |-> e]
\* GeneracFlowHandler.__init__
FlowConstructed == Flow("start", "", "", "username_password", NoInput, NoEntry)

\* GeneracApiClient(username, password, session, cookies, auth_token)
Construct(u, p, ck, tok) ==
    /\ username = u
    /\ password = p
    /\ cookies = ck
    /\ auth_token = tok
    /\ auth_method = AuthMethod(tok, ck)
    /\ headers = InitHeaders(tok, ck)
    /\ logged_in = InitLoggedIn(tok, ck)
    /\ csrf = ""
    /\ pc = "idle"
    /\ apparatuses = <<>>
    /\ idx = 0
    /\ data = <<>>
    /\ sign_in_config = NoConfig
    /\ log = <<>>
    /\ passes = 0
    /\ result = NoResult
    /\ calls = 0

Init ==
    /\ \E u \in Usernames, p \in Passwords, ck \in CookieStrings, tok \in AuthTokens :
         Construct(u, p, ck, tok)
    /\ SensorIdle
    /\ flow = FlowConstructed

----------------------------------------------------------------------------
(* get_endpoint *)

Return(v) == [kind |-> "return", exc |-> "", val |-> v]
Raise(e) == [kind |-> "raise", exc |-> e, val |-> NoneVal]

\* Variant of get_endpoint: every failure is raised as SessionExpired
get_endpoint_AllExpired(resp) ==
    IF resp.net = "fail" THEN Raise("SessionExpiredException")
    ELSE IF resp.status = 204 THEN Return(NoneVal)
    ELSE IF resp.status # 200 THEN Raise("SessionExpiredException")
    ELSE IF resp.body.t = "bad" THEN Raise("SessionExpiredException")
    ELSE Return(resp.body)

\* Variant of get_endpoint: 204 is not told apart from the other statuses
get_endpoint_No204(resp) ==
    IF resp.net = "fail" THEN Raise("IOError")
    ELSE IF resp.status # 200 THEN Raise("SessionExpiredException")
    ELSE IF resp.body.t = "bad" THEN Raise("IOError")
    ELSE Return(resp.body)

\* Classification of a response by get_endpoint: what it returns or raises
get_endpoint(resp) ==
    IF resp.net = "fail" THEN Raise("IOError")
    ELSE IF resp.status = 204 THEN Return(NoneVal)
    ELSE IF resp.status # 200 THEN Raise("SessionExpiredException")
    ELSE IF resp.body.t = "bad" THEN Raise("IOError")
    ELSE Return(resp.body)

\* A header map with the X-Csrf-Token header set
WithCsrf(h, token) ==
    [ n \in DOMAIN h \cup {"X-Csrf-Token"} |->
        IF n = "X-Csrf-Token" THEN token ELSE h[n] ]

\* Variant of EndpointHeaders: the csrf token is not attached
EndpointHeadersPlain(h, token) == h

\* Headers get_endpoint sends: a copy of self._headers, plus the csrf token
\* when one is set
EndpointHeaders(h, token) == IF token # "" THEN WithCsrf(h, token) ELSE h

\* Variant of StoredHeaders: the request headers are the stored map itself
StoredHeadersAliased(h, sent) == sent

\* self._headers after a request was sent with headers built from
\* {**self._headers}: the copy is what was changed, not the stored map
StoredHeaders(h, sent) == h

\* One entry of the request history: fn is the function that issued it
Request(fn, method, url, id, hdrs, resp) ==
    [fn |-> fn, method |-> method, url |-> url, id |-> id, headers |-> hdrs,
     resp |-> resp, pass |-> passes]

----------------------------------------------------------------------------
(* async_get_data *)

\* Whether code running in the given function is enclosed by the try block
\* of async_get_data: the block holds the login, the data fetch follows it.
InTryBlock(origin) == origin = "login"

\* An exception leaves login() or get_generator_data(): SessionExpired
\* raised inside the try block resets the flag and runs async_get_data
\* again, everything else reaches the caller.
Raised(origin, exc) ==
    IF InTryBlock(origin) /\ exc = "SessionExpiredException"
    THEN /\ logged_in' = FALSE
         /\ pc' = "async_get_data"
         /\ result' = result
    ELSE /\ logged_in' = logged_in
         /\ pc' = "idle"
         /\ result' = [kind |-> "raise", exc |-> exc, isNone |-> FALSE, map |-> <<>>]

\* login() returned normally: the flag is set and the data fetch starts
LoginReturn ==
    /\ logged_in' = TRUE
    /\ pc' = "get_generator_data"
    /\ result' = result

\* get_generator_data() returned None or the mapping
Returned(isNone, map) ==
    /\ logged_in' = logged_in
    /\ pc' = "idle"
    /\ result' = [kind |-> "return", exc |-> "", isNone |-> isNone, map |-> map]

Goto(p) ==
    /\ logged_in' = logged_in
    /\ pc' = p
    /\ result' = result

\* The caller starts a call of async_get_data
Call ==
    /\ pc = "idle"
    /\ calls < MaxCalls
    /\ calls' = calls + 1
    /\ pc' = "async_get_data"
    /\ log' = <<>>
    /\ passes' = 0
    /\ result' = Running
    /\ apparatuses' = <<>>
    /\ idx' = 0
    /\ data' = <<>>
    /\ sign_in_config' = NoConfig
    /\ UNCHANGED << config, logged_in, csrf >>
    /\ UNCHANGED sensor
    /\ UNCHANGED flow

\* Variant of NeedsLogin: login() is called in every pass
NeedsLoginAlways(flag) == TRUE

\* "if not self._logged_in"
NeedsLogin(flag) == ~flag

\* One pass through the body of async_get_data
AsyncGetData ==
    /\ pc = "async_get_data"
    /\ passes < MaxPasses
    /\ passes' = passes + 1
    /\ IF NeedsLogin(logged_in) THEN Goto("login") ELSE Goto("get_generator_data")
    /\ UNCHANGED << config, csrf, locals, sign_in_config, log, calls >>
    /\ UNCHANGED sensor
    /\ UNCHANGED flow

----------------------------------------------------------------------------
(* login *)

\* Variant of HasCredentials: one of the two is enough
HasCredentialsEither(u, p) == ~(u = "" /\ p = "")

\* The username/password flow needs both a username and a password
HasCredentials(u, p) == ~(u = "" \/ p = "")

\* login() reaches the username/password flow: without credentials it
\* raises, otherwise the sign-in request is next
LoginFlow ==
    IF ~HasCredentials(username, password)
    THEN Raised("login", "InvalidCredentialsException")
    ELSE Goto("sign_in")

\* Variant of CookiesValid: the test is inverted
CookiesValidInverted(test_response) == test_response = NoneVal

\* The probe found the cookies valid
CookiesValid(test_response) == test_response # NoneVal

\* Variant of SkipLogin: a csrf token kept from an earlier pass also
\* short-circuits the login
SkipLoginCached(method, token) == method = "token" \/ token # ""

\* login() returns at once for JWT token auth
SkipLogin(method, token) == method = "token"

\* Entry of login(): a no-op for token auth, a probe for cookie auth
Login ==
    /\ pc = "login"
    /\ IF SkipLogin(auth_method, csrf) THEN LoginReturn
       ELSE IF auth_method = "cookies" THEN Goto("probe")
       ELSE LoginFlow
    /\ UNCHANGED << config, csrf, locals, sign_in_config, log, passes, calls >>
    /\ UNCHANGED sensor
    /\ UNCHANGED flow

\* The probe of cookie auth: get_endpoint("/v5/Apparatus/list")
Probe ==
    /\ pc = "probe"
    /\ \E r \in ListResponses :
        /\ log' = Append(log, Request("login", "GET", API_BASE \o "/v5/Apparatus/list", 0,
                                      EndpointHeaders(headers, csrf), r))
        /\ LET out == get_endpoint(r) IN
           IF out.kind = "return"
           THEN IF CookiesValid(out.val) THEN LoginReturn ELSE LoginFlow
           ELSE IF out.exc = "SessionExpiredException" THEN LoginFlow
           ELSE Raised("login", out.exc)
    /\ headers' = StoredHeaders(headers, EndpointHeaders(headers, csrf))
    /\ UNCHANGED << creds, csrf, locals, sign_in_config, passes, calls >>
    /\ UNCHANGED sensor
    /\ UNCHANGED flow

\* Variant of HasForm: submit_form never finds a form
HasFormNever(p) == FALSE

\* Variant of HasForm: only the form is looked for
HasFormLoose(p) == p.form

\* submit_form finds a form to post: form, input[name=state] and
\* input[name=code] are all present
HasForm(p) == ~(~p.form \/ ~p.state \/ ~p.code)

\* Variant of ParseSettings: transId is not checked
ParseSettingsCsrfOnly(p) ==
    IF ~p.settings THEN "IOError"
    ELSE IF p.csrf = None THEN "IOError"
    ELSE "ok"

\* get_setting_json and the SignInConfig checks: "ok" or the error raised
ParseSettings(p) ==
    IF ~p.settings THEN "IOError"
    ELSE IF p.csrf = None \/ p.transId = None THEN "IOError"
    ELSE "ok"

\* "sign_in_config = from_dict(SignInConfig, parse_settings)": the local is
\* assigned as soon as the page has a SETTINGS line, before csrf and transId
\* are checked; without that line it stays unassigned
SignInConfig(p) ==
    IF p.settings THEN [csrf |-> p.csrf, transId |-> p.transId] ELSE NoConfig

\* GET /Auth/SignIn, then submit_form on the page or the settings
SignIn ==
    /\ pc = "sign_in"
    /\ \/ /\ log' = Append(log, Request("login", "GET", API_BASE \o "/Auth/SignIn", 0, headers, FailResp))
          /\ Raised("login", "ClientError")
          /\ UNCHANGED << csrf, sign_in_config >>
       \/ \E p \in SignInPages :
          /\ log' = Append(log, Request("login", "GET", API_BASE \o "/Auth/SignIn", 0, headers,
                                        Resp("ok", 200, HtmlVal(p))))
          /\ IF HasForm(p)
             THEN Goto("sign_in_form") /\ UNCHANGED << csrf, sign_in_config >>
             ELSE IF ParseSettings(p) # "ok"
             THEN /\ Raised("login", ParseSettings(p))
                  /\ sign_in_config' = SignInConfig(p)
                  /\ UNCHANGED csrf
             ELSE /\ csrf' = p.csrf
                  /\ sign_in_config' = SignInConfig(p)
                  /\ Goto("self_asserted")
    /\ headers' = StoredHeaders(headers, headers)
    /\ UNCHANGED << creds, locals, passes, calls >>
    /\ UNCHANGED sensor
    /\ UNCHANGED flow

\* Variant of SelfAssertedResult: the HTTP status is not checked
SelfAssertedResultBodyOnly(r) ==
    IF r.net = "fail" THEN "ClientError"
    ELSE IF r.sa # "200" THEN "InvalidCredentialsException"
    ELSE "ok"

\* What login() makes of the Self-Asserted answer: the exception raised,
\* or "ok"
SelfAssertedResult(r) ==
    IF r.net = "fail" THEN "ClientError"
    ELSE IF r.status # 200 THEN "IOError"
    ELSE IF r.sa # "200" THEN "InvalidCredentialsException"
    ELSE "ok"

\* POST SelfAsserted with the csrf token of the sign-in config
SelfAsserted ==
    /\ pc = "self_asserted"
    /\ \E r \in SelfAssertedResponses :
        /\ log' = Append(log, Request("login", "POST", LOGIN_BASE \o "/SelfAsserted", 0,
                                      WithCsrf(headers, sign_in_config.csrf),
                                      Resp(r.net, r.status, ObjVal(r.sa))))
        /\ IF SelfAssertedResult(r) # "ok"
           THEN Raised("login", SelfAssertedResult(r))
           ELSE Goto("confirmed")
    /\ headers' = StoredHeaders(headers, WithCsrf(headers, sign_in_config.csrf))
    /\ UNCHANGED << creds, csrf, locals, sign_in_config, passes, calls >>
    /\ UNCHANGED sensor
    /\ UNCHANGED flow

\* GET api/CombinedSigninAndSignup/confirmed, then submit_form on the page
Confirmed ==
    /\ pc = "confirmed"
    /\ \/ \E r \in {FailResp, Resp("ok", 500, NoneVal)} :
          /\ log' = Append(log, Request("login", "GET", LOGIN_BASE \o "/api/CombinedSigninAndSignup/confirmed", 0,
                                        WithCsrf(headers, sign_in_config.csrf), r))
          /\ IF r.net = "fail" THEN Raised("login", "ClientError")
             ELSE Raised("login", "IOError")
       \/ \E p \in ConfirmPages :
          /\ log' = Append(log, Request("login", "GET", LOGIN_BASE \o "/api/CombinedSigninAndSignup/confirmed", 0,
                                        WithCsrf(headers, sign_in_config.csrf),
                                        Resp("ok", 200, HtmlVal(p))))
          /\ IF ~HasForm(p) THEN Raised("login", "IOError")
             ELSE Goto("confirmed_form")
    /\ headers' = StoredHeaders(headers, WithCsrf(headers, sign_in_config.csrf))
    /\ UNCHANGED << creds, csrf, locals, sign_in_config, passes, calls >>
    /\ UNCHANGED sensor
    /\ UNCHANGED flow

\* Variant of SubmitResult: the status of the form post is not checked
SubmitResultUnchecked(r) == IF r.net = "fail" THEN "ClientError" ELSE "ok"

\* What submit_form makes of the answer to the form post: the exception
\* raised, or "ok" when it returns True
SubmitResult(r) ==
    IF r.net = "fail" THEN "ClientError"
    ELSE IF r.status # 200 THEN "IOError"
    ELSE "ok"

\* Headers of the form post of submit_form
FormHeaders(h, token) == h

\* submit_form posts the form found on the page
FormPost ==
    /\ pc \in {"sign_in_form", "confirmed_form"}
    /\ \E r \in {FailResp, Resp("ok", 500, NoneVal), Resp("ok", 200, NoneVal)} :
        /\ log' = Append(log, Request("submit_form", "POST", "action", 0, FormHeaders(headers, csrf), r))
        /\ IF SubmitResult(r) # "ok"
           THEN Raised("login", SubmitResult(r))
           ELSE LoginReturn
    /\ UNCHANGED << config, csrf, locals, sign_in_config, passes, calls >>
    /\ UNCHANGED sensor
    /\ UNCHANGED flow

----------------------------------------------------------------------------
(* get_generator_data *)

\* str(apparatus.apparatusId)
Key(a) == ToString(a.apparatusId)

Item(apparatus, detail) == [apparatus |-> apparatus, apparatusDetail |-> detail]

\* data[str(apparatus.apparatusId)] = Item(apparatus, detail)
Store(map, a, detail) ==
    [ k \in DOMAIN map \cup {Key(a)} |->
        IF k = Key(a) THEN Item(a, detail) ELSE map[k] ]

\* Variant of NoApparatuses: "not apparatuses", true of the empty list too
NoApparatusesFalsy(v) == v = NoneVal \/ (v.t = "list" /\ v.list = <<>>)

\* Variant of NoDetail: the fallback is never taken
NoDetailNever(v) == FALSE

\* Variant of ContinueIndex: "break" in place of "continue"
ContinueIndexBreak(i, n) == n + 1

\* Variant of IsGenerator: the type is not looked at
IsGeneratorAny(a) == TRUE

\* "apparatuses is None": the list endpoint gave no data
NoApparatuses(v) == v = NoneVal

\* "detail_json is None": the detail endpoint gave no data
NoDetail(v) == v = NoneVal

\* The loop index after "continue" on a device without detail
ContinueIndex(i, n) == i + 1

\* GET /v5/Apparatus/list, the first request of get_generator_data
ListV5 ==
    /\ pc = "get_generator_data"
    /\ \E r \in ListResponses :
        /\ log' = Append(log, Request("get_generator_data", "GET", API_BASE \o "/v5/Apparatus/list", 0,
                                      EndpointHeaders(headers, csrf), r))
        /\ LET out == get_endpoint(r) IN
           IF out.kind = "raise"
           THEN Raised("get_generator_data", out.exc) /\ UNCHANGED locals
           ELSE IF NoApparatuses(out.val)
           THEN Goto("list_v2") /\ UNCHANGED locals
           ELSE /\ apparatuses' = out.val.list
                /\ idx' = 1
                /\ data' = <<>>
                /\ Goto("loop")
    /\ headers' = StoredHeaders(headers, EndpointHeaders(headers, csrf))
    /\ UNCHANGED << creds, csrf, sign_in_config, passes, calls >>
    /\ UNCHANGED sensor
    /\ UNCHANGED flow

\* GET /v2/Apparatus/list, the fallback of the device list
ListV2 ==
    /\ pc = "list_v2"
    /\ \E r \in ListResponses :
        /\ log' = Append(log, Request("get_generator_data", "GET", API_BASE \o "/v2/Apparatus/list", 0,
                                      EndpointHeaders(headers, csrf), r))
        /\ LET out == get_endpoint(r) IN
           IF out.kind = "raise"
           THEN Raised("get_generator_data", out.exc) /\ UNCHANGED locals
           ELSE IF NoApparatuses(out.val)
           THEN Returned(TRUE, <<>>) /\ UNCHANGED locals
           ELSE /\ apparatuses' = out.val.list
                /\ idx' = 1
                /\ data' = <<>>
                /\ Goto("loop")
    /\ headers' = StoredHeaders(headers, EndpointHeaders(headers, csrf))
    /\ UNCHANGED << creds, csrf, sign_in_config, passes, calls >>
    /\ UNCHANGED sensor
    /\ UNCHANGED flow

\* The apparatus type the loop fetches details for
IsGenerator(a) == a.type = 0

\* Variant of apparatus: the list is walked from its end
apparatusReversed(l, i) == l[Len(l) + 1 - i]

\* "for apparatus in apparatuses": the apparatus of the i-th iteration
apparatus(l, i) == l[i]

\* Head of the for loop: the end of the list returns the mapping, an
\* apparatus of another type is skipped
Loop ==
    /\ pc = "loop"
    /\ IF idx > Len(apparatuses)
       THEN Returned(FALSE, data) /\ idx' = idx
       ELSE IF ~IsGenerator(apparatus(apparatuses, idx))
       THEN Goto("loop") /\ idx' = idx + 1
       ELSE Goto("detail_v5") /\ idx' = idx
    /\ UNCHANGED << config, csrf, apparatuses, data, sign_in_config, log, passes, calls >>
    /\ UNCHANGED sensor
    /\ UNCHANGED flow

\* GET /v5/Apparatus/{id}
DetailV5 ==
    /\ pc = "detail_v5"
    /\ \E r \in DetailResponses :
        /\ log' = Append(log, Request("get_generator_data", "GET", API_BASE \o "/v5/Apparatus/{id}",
                                      apparatus(apparatuses, idx).apparatusId,
                                      EndpointHeaders(headers, csrf), r))
        /\ LET out == get_endpoint(r) IN
           IF out.kind = "raise"
           THEN Raised("get_generator_data", out.exc) /\ UNCHANGED << idx, data >>
           ELSE IF NoDetail(out.val)
           THEN Goto("detail_v1") /\ UNCHANGED << idx, data >>
           ELSE /\ data' = Store(data, apparatus(apparatuses, idx), out.val.obj)
                /\ idx' = idx + 1
                /\ Goto("loop")
    /\ headers' = StoredHeaders(headers, EndpointHeaders(headers, csrf))
    /\ UNCHANGED << creds, csrf, apparatuses, sign_in_config, passes, calls >>
    /\ UNCHANGED sensor
    /\ UNCHANGED flow

\* GET /v1/Apparatus/details/{id}, the fallback of the detail
DetailV1 ==
    /\ pc = "detail_v1"
    /\ \E r \in DetailResponses :
        /\ log' = Append(log, Request("get_generator_data", "GET", API_BASE \o "/v1/Apparatus/details/{id}",
                                      apparatus(apparatuses, idx).apparatusId,
                                      EndpointHeaders(headers, csrf), r))
        /\ LET out == get_endpoint(r) IN
           IF out.kind = "raise"
           THEN Raised("get_generator_data", out.exc) /\ UNCHANGED << idx, data >>
           ELSE IF NoDetail(out.val)
           THEN Goto("loop") /\ idx' = ContinueIndex(idx, Len(apparatuses)) /\ data' = data
           ELSE /\ data' = Store(data, apparatus(apparatuses, idx), out.val.obj)
                /\ idx' = idx + 1
                /\ Goto("loop")
    /\ headers' = StoredHeaders(headers, EndpointHeaders(headers, csrf))
    /\ UNCHANGED << creds, csrf, apparatuses, sign_in_config, passes, calls >>
    /\ UNCHANGED sensor
    /\ UNCHANGED flow

----------------------------------------------------------------------------

Next ==
    \/ Call
    \/ AsyncGetData
    \/ Login
    \/ Probe
    \/ SignIn
    \/ SelfAsserted
    \/ Confirmed
    \/ FormPost
    \/ ListV5
    \/ ListV2
    \/ Loop
    \/ DetailV5
    \/ DetailV1

Spec == Init /\ [][Next]_vars

TypeOK ==
    /\ pc \in {"idle", "async_get_data", "login", "probe", "sign_in",
               "sign_in_form", "self_asserted", "confirmed", "confirmed_form",
               "get_generator_data", "list_v2", "loop", "detail_v5", "detail_v1"}
    /\ logged_in \in BOOLEAN
    /\ csrf \in {""} \cup CsrfTokens
    /\ passes \in 0..MaxPasses
    /\ calls \in 0..MaxCalls

----------------------------------------------------------------------------
(* sensor.py: parseDatetime *)

formats == << "%Y-%m-%dT%H:%M:%S.%f%z", "%Y-%m-%dT%H:%M:%S%z" >>

\* Raw timestamp strings, as date and time, fraction and zone parts
DateParts == {"2024-01-02T03:04:05", "2024-01-02 03:04:05", "2024-13-02T03:04:05"}
FracParts == {"", ".", ".5", ".123", ".123456", ".1234567"}
ZoneParts == {"", "Z", "+00:00", "-0500", "UTC"}
RawStrings == [date : DateParts, frac : FracParts, zone : ZoneParts]

\* The string itself
Text(raw) == raw.date \o raw.frac \o raw.zone

\* What the directives of strptime accept: %Y-%m-%dT%H:%M:%S a valid date
\* joined by "T", ".%f" a point and one to six digits, %z "Z" or an offset
DateOk(d) == d = "2024-01-02T03:04:05"
FracOk(f) == f \in {".5", ".123", ".123456"}
ZoneOk(z) == z \in {"Z", "+00:00", "-0500"}

\* Value of %f in microseconds and of %z in seconds
Microsecond(f) ==
    CASE f = ".5" -> 500000
      [] f = ".123" -> 123000
      [] f = ".123456" -> 123456
      [] OTHER -> 0
UtcOffset(z) == IF z = "-0500" THEN 0 - 18000 ELSE 0

\* datetime.strptime(rawStr, fmt): the datetime, or ok = FALSE for ValueError
strptime(raw, fmt) ==
    IF /\ DateOk(raw.date)
       /\ ZoneOk(raw.zone)
       /\ IF fmt = formats[1] THEN FracOk(raw.frac) ELSE raw.frac = ""
    THEN [ok |-> TRUE,
          value |-> [date |-> raw.date, microsecond |-> Microsecond(raw.frac),
                     utcoffset |-> UtcOffset(raw.zone)]]
    ELSE [ok |-> FALSE, value |-> NoDatetime]

\* The ValueError raised when no format matched
NoKnownFormat(raw) ==
    [kind |-> "raise", fmt |-> "", value |-> NoDatetime,
     text |-> "No known datetime format for raw string {rawStr}",
     args |-> << Text(raw) >>]

\* One iteration of "for fmt in formats": return the parse, or keep the
\* ValueError and go on
TryFormat ==
    /\ parsed.kind = "none"
    /\ fmtIdx \in 1..Len(formats)
    /\ LET fmt == formats[fmtIdx]
           r == strptime(rawStr, fmt)
       IN  IF r.ok
           THEN /\ parsed' = [kind |-> "return", fmt |-> fmt, value |-> r.value,
                              text |-> "", args |-> <<>>]
                /\ UNCHANGED << fmtIdx, ves >>
           ELSE /\ ves' = Append(ves, [fmt |-> fmt, raw |-> Text(rawStr)])
                /\ fmtIdx' = fmtIdx + 1
                /\ UNCHANGED parsed
    /\ UNCHANGED << client, rawStr, lookup, flow >>

\* The loop is over: raise ValueError
RaiseNoFormat ==
    /\ parsed.kind = "none"
    /\ fmtIdx > Len(formats)
    /\ parsed' = NoKnownFormat(rawStr)
    /\ UNCHANGED << client, rawStr, fmtIdx, ves, lookup, flow >>

\* parseDatetime is called with a raw string; no client call is involved
SensorInit ==
    /\ Construct("", "", "", "")
    /\ rawStr \in RawStrings
    /\ fmtIdx = 1
    /\ ves = <<>>
    /\ parsed = NoParse
    /\ LookupIdle
    /\ flow = FlowConstructed

SensorNext ==
    \/ TryFormat
    \/ RaiseNoFormat

SensorSpec == SensorInit /\ [][SensorNext]_vars

----------------------------------------------------------------------------
(* sensor.py: native_value of the run time, protection time and battery
   voltage sensors *)

PropTypes == {31, 32, 69, 70, 71}
PropValues == {NullValue, Num(5), Str(7)}
Property == [type : PropTypes, value : PropValues]
PropertyLists == UNION { [1..n -> Property] : n \in 0..MaxProps }
SensorClasses == {"RunTimeSensor", "ProtectionTimeSensor", "BatteryVoltageSensor"}

\* Variant of FirstValue: the last property of the type is taken
LastValue(props, type, default) ==
    LET S == { i \in 1..Len(props) : props[i].type = type }
    IN  IF S = {} THEN default
        ELSE props[CHOOSE i \in S : \A j \in S : j <= i].value

\* next((prop.value for prop in props if prop.type == type), default)
FirstValue(props, type, default) ==
    LET S == { i \in 1..Len(props) : props[i].type = type }
    IN  IF S = {} THEN default
        ELSE props[CHOOSE i \in S : \A j \in S : i <= j].value

\* "if isinstance(val, str): val = float(val)"
ToFloat(val) == IF val.t = "str" THEN Num(val.n) ELSE val

\* The body shared by the three native_value properties: the value under
\* the v5 type, under the older type when that is None, 0 by default
TypeLookup(props, v5type, v2type) ==
    IF props.isNone THEN Num(0)
    ELSE LET val == FirstValue(props.list, v5type, NullValue)
         IN  ToFloat(IF val = NullValue
                     THEN FirstValue(props.list, v2type, Num(0))
                     ELSE val)

\* RunTimeSensor.native_value: 71 is Engine Hours of v5, 70 of v2
RunTimeNativeValue ==
    /\ sensor_class = "RunTimeSensor"
    /\ native = Pending
    /\ native' = TypeLookup(properties, 71, 70)
    /\ UNCHANGED << client, parse, properties, sensor_class, flow >>

\* ProtectionTimeSensor.native_value: 32 is Hours of Protection of v5, 31 of v2
ProtectionTimeNativeValue ==
    /\ sensor_class = "ProtectionTimeSensor"
    /\ native = Pending
    /\ native' = TypeLookup(properties, 32, 31)
    /\ UNCHANGED << client, parse, properties, sensor_class, flow >>

\* BatteryVoltageSensor.native_value: 70 is Battery Voltage of v5, 69 of v2
BatteryVoltageNativeValue ==
    /\ sensor_class = "BatteryVoltageSensor"
    /\ native = Pending
    /\ native' = TypeLookup(properties, 70, 69)
    /\ UNCHANGED << client, parse, properties, sensor_class, flow >>

\* A sensor entity over a detail record; no client call is involved
LookupInit ==
    /\ Construct("", "", "", "")
    /\ ParseIdle
    /\ properties \in {NoProperties} \cup { Properties(l) : l \in PropertyLists }
    /\ sensor_class \in SensorClasses
    /\ native = Pending
    /\ flow = FlowConstructed

LookupNext ==
    \/ RunTimeNativeValue
    \/ ProtectionTimeNativeValue
    \/ BatteryVoltageNativeValue

LookupSpec == LookupInit /\ [][LookupNext]_vars

----------------------------------------------------------------------------
(* config_flow.py: GeneracFlowHandler *)

AuthMethods == {"username_password", "cookies", "token"}

\* What the user can type into the form of a step; "" is an empty field
StepInputs(step) ==
    CASE step = "username_password" ->
            { [NoInput EXCEPT !.username = u, !.password = p] :
                u \in Usernames, p \in Passwords }
      [] step = "cookies" -> { [NoInput EXCEPT !.cookies = ck] : ck \in CookieStrings }
      [] step = "token" -> { [NoInput EXCEPT !.auth_token = tok] : tok \in AuthTokens }

\* The data of the entry a step creates: the submitted fields and the
\* auth method of the step
EntryData(step, input) ==
    CASE step = "username_password" ->
            [username |-> input.username, password |-> input.password,
             auth_method |-> "username_password"]
      [] step = "cookies" -> [cookies |-> input.cookies, auth_method |-> "cookies"]
      [] step = "token" -> [auth_token |-> input.auth_token, auth_method |-> "token"]

EntryTitle(step, input) ==
    CASE step = "username_password" -> input.username
      [] step = "cookies" -> "Generac (Cookies)"
      [] step = "token" -> "Generac (JWT Token)"

\* Variant of test_credentials: only InvalidCredentials is an error
test_credentials_AuthOnly(res) ==
    IF res.kind = "return" THEN None
    ELSE IF res.exc = "InvalidCredentialsException" THEN "auth"
    ELSE None

\* _test_credentials: None when async_get_data returned, "auth" for
\* InvalidCredentialsException, "internal" for any other exception
test_credentials(res) ==
    IF res.kind = "return" THEN None
    ELSE IF res.exc = "InvalidCredentialsException" THEN "auth"
    ELSE "internal"

\* async_step_user(None): the flow is opened and the method form is shown
AsyncStepUser ==
    /\ flow.pc = "start"
    /\ flow' = [flow EXCEPT !.pc = "form", !.step_id = "user", !.errors = ""]
    /\ UNCHANGED << client, sensor >>

\* async_step_user(user_input): the chosen method's form is shown
ChooseMethod ==
    /\ flow.pc = "form"
    /\ flow.step_id = "user"
    /\ \E m \in AuthMethods :
        flow' = [flow EXCEPT !.auth_method = m, !.step_id = m, !.errors = ""]
    /\ UNCHANGED << client, sensor >>

\* A credential step is submitted: _test_credentials builds a client from
\* the input, as Construct does
SubmitStep ==
    /\ flow.pc = "form"
    /\ flow.step_id \in AuthMethods
    /\ \E input \in StepInputs(flow.step_id) :
        /\ flow' = [flow EXCEPT !.pc = "testing", !.user_input = input]
        /\ username' = input.username
        /\ password' = input.password
        /\ cookies' = input.cookies
        /\ auth_token' = input.auth_token
        /\ auth_method' = AuthMethod(input.auth_token, input.cookies)
        /\ headers' = InitHeaders(input.auth_token, input.cookies)
        /\ logged_in' = InitLoggedIn(input.auth_token, input.cookies)
    /\ csrf' = ""
    /\ pc' = "idle"
    /\ apparatuses' = <<>>
    /\ idx' = 0
    /\ data' = <<>>
    /\ sign_in_config' = NoConfig
    /\ log' = <<>>
    /\ passes' = 0
    /\ result' = NoResult
    /\ calls' = 0
    /\ UNCHANGED sensor

\* _test_credentials calls async_get_data on the new client
TestCall ==
    /\ flow.pc = "testing"
    /\ calls = 0
    /\ Call

\* _test_credentials returns: the step creates the entry, or shows its
\* form again with the error
TestDone ==
    /\ flow.pc = "testing"
    /\ pc = "idle"
    /\ result.kind \in {"return", "raise"}
    /\ LET error == test_credentials(result) IN
       IF error = None
       THEN flow' = [flow EXCEPT !.pc = "created",
                                 !.entry = [title |-> EntryTitle(flow.step_id, flow.user_input),
                                            data |-> EntryData(flow.step_id, flow.user_input)]]
       ELSE flow' = [flow EXCEPT !.pc = "form", !.errors = error]
    /\ UNCHANGED << client, sensor >>

FlowInit ==
    /\ Construct("", "", "", "")
    /\ SensorIdle
    /\ flow = FlowConstructed

FlowNext ==
    \/ AsyncStepUser
    \/ ChooseMethod
    \/ SubmitStep
    \/ TestCall
    \/ TestDone
    \/ AsyncGetData
    \/ Login
    \/ Probe
    \/ SignIn
    \/ SelfAsserted
    \/ Confirmed
    \/ FormPost
    \/ ListV5
    \/ ListV2
    \/ Loop
    \/ DetailV5
    \/ DetailV1

FlowSpec == FlowInit /\ [][FlowNext]_vars

----------------------------------------------------------------------------
(* Vocabulary of the properties *)

Finished == pc = "idle" /\ result.kind \in {"return", "raise"}
ReturnedData == Finished /\ result.kind = "return" /\ ~result.isNone

\* Server answers, named independently of the client's classification.
\* No-data is the answer get_endpoint turns into None: status 204, or a 200
\* whose JSON body is null.
NoData(r) == r.net = "ok" /\ (r.status = 204 \/ (r.status = 200 /\ r.body = NoneVal))
Expired(r) == r.net = "ok" /\ r.status \notin {200, 204}
TransportFailure(r) == r.net = "fail" \/ (r.net = "ok" /\ r.status = 200 /\ r.body = BadJson)
HasData(r) == r.net = "ok" /\ r.status = 200 /\ r.body.t \in {"list", "obj"}

IsProbe(e) == e.fn = "login" /\ e.url = API_BASE \o "/v5/Apparatus/list"
IsSignIn(e) == e.fn = "login" /\ e.url = API_BASE \o "/Auth/SignIn"
IsLoginFlow(e) == (e.fn = "login" /\ ~IsProbe(e)) \/ e.fn = "submit_form"
IsSelfAsserted(e) == e.fn = "login" /\ e.url = LOGIN_BASE \o "/SelfAsserted"
IsConfirm(e) == e.fn = "login" /\ e.url = LOGIN_BASE \o "/api/CombinedSigninAndSignup/confirmed"
IsFormPost(e) == e.fn = "submit_form"
IsData(e) == e.fn = "get_generator_data"
IsListV5(e) == IsData(e) /\ e.url = API_BASE \o "/v5/Apparatus/list"
IsListV2(e) == IsData(e) /\ e.url = API_BASE \o "/v2/Apparatus/list"
IsDetailV5(e) == IsData(e) /\ e.url = API_BASE \o "/v5/Apparatus/{id}"
IsDetailV1(e) == IsData(e) /\ e.url = API_BASE \o "/v1/Apparatus/details/{id}"
IsDetail(e) == IsDetailV5(e) \/ IsDetailV1(e)

LogIdx == 1..Len(log)

\* Passes of the call in which a data request was answered with expiry
ExpiredPasses == { log[i].pass : i \in { j \in LogIdx : IsData(log[j]) /\ Expired(log[j].resp) } }

----------------------------------------------------------------------------
(* Properties *)

\* C1: when a data-endpoint request of the first pass is answered with
\* session expiry, the call does not end before a second pass (login and
\* data fetch) has been run.
C1_ExpiryRetriedOnce ==
    \A i \in LogIdx :
        (IsData(log[i]) /\ Expired(log[i].resp) /\ log[i].pass = 1)
            => (pc = "idle" => passes = 2)

C3_TransportErrorNotRetried ==
    \A i \in LogIdx :
        ((IsProbe(log[i]) \/ IsData(log[i])) /\ TransportFailure(log[i].resp))
            => /\ i = Len(log)
               /\ pc = "idle"
               /\ result.kind = "raise"
               /\ result.exc = "IOError"
               /\ passes = log[i].pass

C3_Witness ==
    /\ Finished
    /\ Len(log) >= 1
    /\ IsProbe(log[Len(log)])
    /\ TransportFailure(log[Len(log)].resp)
    /\ result.exc = "IOError"

\* C4: /v2/Apparatus/list is requested exactly after a /v5/Apparatus/list
\* request that gave no data; get_generator_data returns None exactly when
\* both gave no data, and then without any detail request; a list answered
\* by v2 is the list the result is built from.
C4_ListFallback ==
    /\ \A i \in LogIdx :
         IsListV2(log[i]) => (i > 1 /\ IsListV5(log[i-1]) /\ NoData(log[i-1].resp))
    /\ \A i \in LogIdx :
         (IsListV5(log[i]) /\ NoData(log[i].resp))
            => IF i = Len(log) THEN pc = "list_v2" ELSE IsListV2(log[i+1])
    /\ \A i \in LogIdx :
         (IsListV2(log[i]) /\ NoData(log[i].resp))
            => /\ i = Len(log)
               /\ Finished /\ result.kind = "return" /\ result.isNone
               /\ \A j \in LogIdx : ~IsDetail(log[j])
    /\ (Finished /\ result.kind = "return" /\ result.isNone)
            => \E i \in LogIdx : IsListV2(log[i]) /\ NoData(log[i].resp)
    /\ \A i \in LogIdx :
         (IsListV2(log[i]) /\ HasData(log[i].resp))
            => /\ apparatuses = log[i].resp.body.list
               /\ ReturnedData =>
                    \A k \in DOMAIN result.map :
                        \E j \in 1..Len(log[i].resp.body.list) :
                            result.map[k].apparatus = log[i].resp.body.list[j]

C4_Witness ==
    /\ ReturnedData
    /\ DOMAIN result.map # {}
    /\ \E i \in LogIdx : IsListV2(log[i]) /\ HasData(log[i].resp)

\* C5: /v1/Apparatus/details/{id} is requested exactly after a
\* /v5/Apparatus/{id} request for the same id that gave no data; the Item
\* under an id carries the detail payload of the request that returned
\* data; when both gave no data the id has no Item and the loop goes on.
C5_DetailFallback ==
    /\ \A i \in LogIdx :
         IsDetailV1(log[i])
            => (i > 1 /\ IsDetailV5(log[i-1]) /\ log[i-1].id = log[i].id
                      /\ NoData(log[i-1].resp))
    /\ \A i \in LogIdx :
         (IsDetailV5(log[i]) /\ NoData(log[i].resp))
            => IF i = Len(log)
               THEN pc = "detail_v1" /\ apparatuses[idx].apparatusId = log[i].id
               ELSE IsDetailV1(log[i+1]) /\ log[i+1].id = log[i].id
    /\ \A i \in LogIdx :
         (IsDetail(log[i]) /\ HasData(log[i].resp))
            => /\ ToString(log[i].id) \in DOMAIN data
               /\ data[ToString(log[i].id)].apparatusDetail = log[i].resp.body.obj
               /\ data[ToString(log[i].id)].apparatus.apparatusId = log[i].id
               /\ ReturnedData => result.map[ToString(log[i].id)] = data[ToString(log[i].id)]
    /\ \A i \in LogIdx :
         (IsDetailV1(log[i]) /\ NoData(log[i].resp))
            => /\ ToString(log[i].id) \notin DOMAIN data
               /\ \E j \in 1..(idx - 1) : apparatuses[j].apparatusId = log[i].id
               /\ i = Len(log) => (pc \in {"loop", "detail_v5"} \/ ReturnedData)

C5_Witness ==
    /\ ReturnedData
    /\ \E i \in LogIdx : IsDetailV1(log[i]) /\ HasData(log[i].resp)
    /\ \E i \in LogIdx : IsDetailV1(log[i]) /\ NoData(log[i].resp)
    /\ Cardinality(DOMAIN result.map) = 1

\* C6: a type-0 apparatus whose detail fetch fails, both detail endpoints
\* giving no data, is left out of the mapping and the fetch is not aborted:
\* the next type-0 apparatus of the list is requested next, and the
\* returned mapping holds exactly the type-0 apparatuses of the list whose
\* detail request returned data, each of them having been requested.
C6_NoDataDegradesGracefully ==
    /\ \A i \in LogIdx :
         (IsDetailV1(log[i]) /\ NoData(log[i].resp))
            => /\ ToString(log[i].id) \notin DOMAIN data
               /\ ~(pc = "idle" /\ result.kind = "raise" /\ i = Len(log))
               /\ \A j, k \in 1..Len(apparatuses) :
                    (/\ apparatuses[j].apparatusId = log[i].id
                     /\ j < k
                     /\ apparatuses[k].type = 0
                     /\ \A m \in (j + 1)..(k - 1) : apparatuses[m].type # 0)
                        => IF i < Len(log)
                           THEN /\ IsDetailV5(log[i+1])
                                /\ log[i+1].id = apparatuses[k].apparatusId
                           ELSE pc \in {"loop", "detail_v5"} /\ idx <= k
    /\ ReturnedData =>
         \A j \in 1..Len(apparatuses) :
            apparatuses[j].type = 0 =>
                /\ \E i \in LogIdx : IsDetailV5(log[i]) /\ log[i].id = apparatuses[j].apparatusId
                /\ ToString(apparatuses[j].apparatusId) \in DOMAIN result.map
                     <=> \E i \in LogIdx : /\ IsDetail(log[i])
                                           /\ log[i].id = apparatuses[j].apparatusId
                                           /\ HasData(log[i].resp)

C6_Witness ==
    /\ ReturnedData
    /\ Len(apparatuses) = 2
    /\ apparatuses[1].type = 0
    /\ apparatuses[2].type = 0
    /\ DOMAIN result.map = {ToString(apparatuses[2].apparatusId)}
    /\ \E i \in LogIdx : /\ IsDetailV1(log[i])
                         /\ log[i].id = apparatuses[1].apparatusId
                         /\ NoData(log[i].resp)

\* C7: an apparatus whose type is not 0 has no detail request and no entry;
\* every key of the mapping is the decimal string of the id of a type-0
\* apparatus of the device list.
C7_OnlyGenerators ==
    /\ \A j \in 1..Len(apparatuses) :
         apparatuses[j].type # 0 =>
            /\ \A i \in LogIdx : IsDetail(log[i]) => log[i].id # apparatuses[j].apparatusId
            /\ ToString(apparatuses[j].apparatusId) \notin DOMAIN data
    /\ \A i \in LogIdx :
         IsDetail(log[i]) =>
            \E j \in 1..Len(apparatuses) :
                apparatuses[j].apparatusId = log[i].id /\ apparatuses[j].type = 0
    /\ \A k \in DOMAIN data :
         \E j \in 1..Len(apparatuses) :
            /\ apparatuses[j].type = 0
            /\ k = ToString(apparatuses[j].apparatusId)
            /\ data[k].apparatus = apparatuses[j]
    /\ ReturnedData => DOMAIN result.map = DOMAIN data

C7_Witness ==
    /\ ReturnedData
    /\ \E j \in 1..Len(apparatuses) : apparatuses[j].type # 0
    /\ DOMAIN result.map # {}

\* C8: after a cookie probe that returned data, login() has returned: the
\* pass holds no request of the login flow, with or without a username and
\* password, and the data fetch is what follows the probe.
C8_ValidProbeNoLogin ==
    \A i \in LogIdx :
        (IsProbe(log[i]) /\ HasData(log[i].resp))
            => /\ \A j \in LogIdx : log[j].pass = log[i].pass => ~IsLoginFlow(log[j])
               /\ i = Len(log) => (pc = "get_generator_data" /\ logged_in)
               /\ i < Len(log) => IsListV5(log[i+1])

C8_Witness ==
    /\ ReturnedData
    /\ username # "" /\ password # ""
    /\ \E i \in LogIdx : IsProbe(log[i]) /\ HasData(log[i].resp)

\* C9: after a cookie probe answered with expiry, the sign-in GET is the
\* next request when a username and a password are configured; otherwise
\* the call ends with InvalidCredentials and no request of the login flow.
\* The probe's SessionExpired never leaves login().
C9_ExpiredProbe ==
    \A i \in LogIdx :
        (IsProbe(log[i]) /\ Expired(log[i].resp))
            => IF username # "" /\ password # ""
               THEN IF i = Len(log) THEN pc = "sign_in" ELSE IsSignIn(log[i+1])
               ELSE /\ i = Len(log)
                    /\ pc = "idle"
                    /\ result.kind = "raise"
                    /\ result.exc = "InvalidCredentialsException"

C9_Witness ==
    /\ ReturnedData
    /\ \E i \in LogIdx : IsProbe(log[i]) /\ Expired(log[i].resp)
    /\ \E i \in LogIdx : log[i].fn = "submit_form"

\* C10: a token client is logged in in every state, is never inside
\* login(), and over all its calls sends data requests only, the first of
\* each call being /v5/Apparatus/list.
C10_TokenMode ==
    auth_method = "token" =>
        /\ logged_in
        /\ pc \in {"idle", "async_get_data", "get_generator_data", "list_v2",
                   "loop", "detail_v5", "detail_v1"}
        /\ \A i \in LogIdx : IsData(log[i])
        /\ Len(log) >= 1 => IsListV5(log[1])

C10_Witness ==
    /\ auth_method = "token"
    /\ calls = 2
    /\ ReturnedData
    /\ DOMAIN result.map # {}

\* C11: in username/password mode login() issues no request before the
\* credential check: with a username and a password the sign-in GET is its
\* first request, whatever csrf token an earlier pass left; without one of
\* them it raises InvalidCredentials and no request is sent.
C11_LoginStartsWithSignIn ==
    [][ /\ (pc = "login" /\ auth_method = "username_password")
            => /\ log' = log
               /\ IF username # "" /\ password # ""
                  THEN pc' = "sign_in"
                  ELSE /\ pc' = "idle"
                       /\ result'.kind = "raise"
                       /\ result'.exc = "InvalidCredentialsException"
        /\ pc = "sign_in"
            => (Len(log') = Len(log) + 1 /\ IsSignIn(log'[Len(log')])) ]_vars

C11_Witness ==
    /\ auth_method = "username_password"
    /\ calls = 2
    /\ csrf # ""
    /\ Len(log) = 1
    /\ IsSignIn(log[1])
    /\ pc = "sign_in_form"

\* C12: a sign-in page without the final form whose settings line is
\* missing, or lacks csrf or transId, ends login() with an exception other
\* than InvalidCredentials; the Self-Asserted POST is not sent.
C12_SettingsParseError ==
    \A i \in LogIdx :
        (IsSignIn(log[i]) /\ log[i].resp.net = "ok")
            => LET p == log[i].resp.body.page IN
               (/\ ~(p.form /\ p.state /\ p.code)
                /\ (~p.settings \/ p.csrf = None \/ p.transId = None))
                    => /\ i = Len(log)
                       /\ pc = "idle"
                       /\ result.kind = "raise"
                       /\ result.exc # "InvalidCredentialsException"
                       /\ \A j \in LogIdx : ~IsSelfAsserted(log[j])

C12_Witness ==
    /\ Finished
    /\ Len(log) >= 1
    /\ IsSignIn(log[Len(log)])
    /\ log[Len(log)].resp.net = "ok"
    /\ log[Len(log)].resp.body.page.settings
    /\ log[Len(log)].resp.body.page.transId = None
    /\ result.exc = "IOError"

\* C13: a Self-Asserted answer with an HTTP status other than 200 ends
\* login() with IOError; a 200 whose body status is not "200" ends it with
\* InvalidCredentials; in both cases it is the last request.  The confirm
\* GET follows exactly a 200 answer with body status "200".
C13_SelfAssertedOutcome ==
    /\ \A i \in LogIdx :
         (IsSelfAsserted(log[i]) /\ log[i].resp.net = "ok")
            => IF log[i].resp.status # 200
               THEN /\ i = Len(log) /\ pc = "idle"
                    /\ result.kind = "raise" /\ result.exc = "IOError"
               ELSE IF log[i].resp.body.obj # "200"
               THEN /\ i = Len(log) /\ pc = "idle"
                    /\ result.kind = "raise"
                    /\ result.exc = "InvalidCredentialsException"
               ELSE IF i = Len(log) THEN pc = "confirmed" ELSE IsConfirm(log[i+1])
    /\ \A i \in LogIdx :
         IsConfirm(log[i])
            => /\ i > 1
               /\ IsSelfAsserted(log[i-1])
               /\ log[i-1].resp.net = "ok"
               /\ log[i-1].resp.status = 200
               /\ log[i-1].resp.body.obj = "200"

C13_Witness ==
    /\ Finished
    /\ Len(log) >= 1
    /\ IsSelfAsserted(log[Len(log)])
    /\ log[Len(log)].resp.status = 500
    /\ result.exc = "IOError"

\* C14: the constructor's choice: a token gives token mode with
\* Authorization "Bearer <token>" and no Cookie header; else a cookie string
\* gives cookie mode with that Cookie header and no Authorization header;
\* else username/password mode with neither header.
C14_AuthModeHeaders ==
    IF auth_token # ""
    THEN /\ auth_method = "token"
         /\ "Authorization" \in DOMAIN headers
         /\ headers["Authorization"] = "Bearer " \o auth_token
         /\ "Cookie" \notin DOMAIN headers
    ELSE IF cookies # ""
    THEN /\ auth_method = "cookies"
         /\ "Cookie" \in DOMAIN headers
         /\ headers["Cookie"] = cookies
         /\ "Authorization" \notin DOMAIN headers
    ELSE /\ auth_method = "username_password"
         /\ "Cookie" \notin DOMAIN headers
         /\ "Authorization" \notin DOMAIN headers

C14_Witness ==
    /\ auth_token # "" /\ cookies # "" /\ username # "" /\ password # ""
    /\ Len(log) >= 1
    /\ "Authorization" \in DOMAIN log[1].headers

\* A page on which submit_form finds nothing to post
LacksForm(p) == ~(p.form /\ p.state /\ p.code)

\* C16: in cookie and username/password modes the flag is false right
\* after a data request that was answered with expiry.
C16_LoggedInResetOnExpiry ==
    \A i \in LogIdx :
        (IsData(log[i]) /\ Expired(log[i].resp) /\ auth_method # "token" /\ i = Len(log))
            => ~logged_in

\* C17: the flag is true at construction only for a token client, and it
\* becomes true only in token mode, or by a probe that returned data, or by
\* a form post answered 200.  A confirm GET with another status, a confirm
\* page without form, state or code, and a form post with another status
\* are the last request of a call that raises and leaves the flag false.
C17_LoggedInOnlyAfterLogin ==
    /\ (logged_in => auth_method = "token")
    /\ [][ (~logged_in /\ logged_in')
              => \/ auth_method = "token"
                 \/ /\ Len(log') >= 1
                    /\ LET e == log'[Len(log')] IN
                       \/ IsProbe(e) /\ HasData(e.resp)
                       \/ IsFormPost(e) /\ e.resp.net = "ok" /\ e.resp.status = 200 ]_vars
    /\ [](\A i \in LogIdx :
            (\/ /\ IsConfirm(log[i]) /\ log[i].resp.net = "ok"
                /\ \/ log[i].resp.status # 200
                   \/ LacksForm(log[i].resp.body.page)
             \/ IsFormPost(log[i]) /\ log[i].resp.net = "ok" /\ log[i].resp.status # 200)
                => /\ i = Len(log)
                   /\ pc = "idle"
                   /\ result.kind = "raise"
                   /\ ~logged_in)

C17_Witness ==
    /\ logged_in
    /\ auth_method # "token"
    /\ Len(log) >= 1
    /\ IsFormPost(log[Len(log)])
    /\ log[Len(log)].resp.status = 200

\* C18: a data request answered 204 does not raise; one answered with any
\* status other than 200 and 204 ends the call with SessionExpired, never
\* with InvalidCredentials or IOError; one answered 200 with a decodable
\* body does not raise and its body is the value used.
C18_StatusClassification ==
    \A i \in LogIdx :
        (IsData(log[i]) /\ log[i].resp.net = "ok")
            => LET r == log[i].resp
                   raised == i = Len(log) /\ pc = "idle" /\ result.kind = "raise"
               IN  /\ r.status = 204 => ~raised
                   /\ r.status \notin {200, 204}
                        => (raised /\ result.exc = "SessionExpiredException")
                   /\ (r.status = 200 /\ r.body # BadJson) => ~raised
                   /\ (r.status = 200 /\ r.body.t = "list") => apparatuses = r.body.list
                   /\ (r.status = 200 /\ r.body.t = "obj")
                        => /\ ToString(log[i].id) \in DOMAIN data
                           /\ data[ToString(log[i].id)].apparatusDetail = r.body.obj

C18_Witness ==
    /\ Finished
    /\ Len(log) >= 2
    /\ IsData(log[Len(log)])
    /\ log[Len(log)].resp.status = 500
    /\ result.exc = "SessionExpiredException"
    /\ \E i \in LogIdx : IsData(log[i]) /\ log[i].resp.net = "ok" /\ log[i].resp.status = 204

\* The request carries the X-Csrf-Token header with the given token
CarriesCsrf(e, token) ==
    "X-Csrf-Token" \in DOMAIN e.headers /\ e.headers["X-Csrf-Token"] = token

\* login() has extracted a csrf token in this call: the sign-in config holds
\* both csrf and transId, so the check at api.py:200 let the token through.
\* A config that lacks either one ends login() with IOError before the token
\* is stored or sent.
Extracted == sign_in_config.csrf # None /\ sign_in_config.transId # None

\* The request was sent after the sign-in page of this call was read
AfterSignIn(j) == \E i \in 1..(j - 1) : IsSignIn(log[i])

\* C19 as stated: once a token is extracted, every later request of the
\* login pass, the form post included, and every later data request carry it
C19_CsrfOnEveryRequest ==
    \A j \in LogIdx :
        /\ (Extracted /\ AfterSignIn(j)) => CarriesCsrf(log[j], sign_in_config.csrf)
        /\ (~Extracted /\ csrf # "" /\ (IsData(log[j]) \/ IsProbe(log[j])))
                => CarriesCsrf(log[j], csrf)

\* C19, amended: once a token is extracted it is the stored csrf token; the
\* Self-Asserted POST and the confirm GET of that pass and every data
\* request sent afterwards, in this call or a later one, carry it; the
\* form post of submit_form is sent with the stored headers, without it.
C19_CsrfExceptFormPost ==
    /\ Extracted => csrf = sign_in_config.csrf
    /\ \A j \in LogIdx :
        /\ IsFormPost(log[j]) => "X-Csrf-Token" \notin DOMAIN log[j].headers
        /\ (Extracted /\ AfterSignIn(j) /\ ~IsFormPost(log[j]))
                => CarriesCsrf(log[j], sign_in_config.csrf)
        /\ (~Extracted /\ csrf # "" /\ (IsData(log[j]) \/ IsProbe(log[j])))
                => CarriesCsrf(log[j], csrf)

C19_Witness ==
    /\ Extracted
    /\ ReturnedData
    /\ DOMAIN result.map # {}
    /\ \E j \in LogIdx : IsFormPost(log[j])

\* Position of a request in the login flow
Rank(e) ==
    IF IsSignIn(e) THEN 1
    ELSE IF IsSelfAsserted(e) THEN 2
    ELSE IF IsConfirm(e) THEN 3
    ELSE 4

\* The answer makes the step of the login flow fail
StepFailed(e) ==
    \/ e.resp.net = "fail"
    \/ /\ IsSignIn(e)
       /\ LacksForm(e.resp.body.page)
       /\ LET p == e.resp.body.page IN ~p.settings \/ p.csrf = None \/ p.transId = None
    \/ IsSelfAsserted(e) /\ (e.resp.status # 200 \/ e.resp.body.obj # "200")
    \/ IsConfirm(e) /\ (e.resp.status # 200 \/ LacksForm(e.resp.body.page))
    \/ IsFormPost(e) /\ e.resp.status # 200

\* C20: the requests of the login flow of one pass are in the order sign-in
\* GET, Self-Asserted POST, confirm GET, form post, none of them twice, and
\* a step that failed is the last request of the call.
C20_ForwardOnly ==
    /\ \A i, j \in LogIdx :
         (i < j /\ IsLoginFlow(log[i]) /\ IsLoginFlow(log[j]) /\ log[i].pass = log[j].pass)
            => Rank(log[i]) < Rank(log[j])
    /\ \A i \in LogIdx :
         (IsLoginFlow(log[i]) /\ StepFailed(log[i]))
            => (i = Len(log) /\ pc = "idle" /\ result.kind = "raise")

C20_Witness ==
    /\ ReturnedData
    /\ \E i \in LogIdx :
        /\ i + 3 <= Len(log)
        /\ IsSignIn(log[i])
        /\ IsSelfAsserted(log[i+1])
        /\ IsConfirm(log[i+2])
        /\ IsFormPost(log[i+3])

\* The values interpolated into the message of the exception
Named(p) == { p.args[i] : i \in 1..Len(p.args) }

\* C15: parseDatetime tries the format with fractional seconds first and
\* the one without second, returns the parse of the first format that
\* matches, and when none matches raises an error that names both formats.
C15_ParseDatetime ==
    /\ \A i \in 1..Len(ves) : ves[i].fmt = formats[i]
    /\ parsed.kind = "return"
        => /\ parsed.fmt = formats[Len(ves) + 1]
           /\ strptime(rawStr, parsed.fmt).ok
           /\ parsed.value = strptime(rawStr, parsed.fmt).value
    /\ parsed.kind = "raise"
        => /\ Len(ves) = Len(formats)
           /\ \A i \in 1..Len(formats) : formats[i] \in Named(parsed)

\* C21: after a sign-in page that holds a form with state and code inputs,
\* the form post is the next request and the pass has neither a
\* Self-Asserted POST nor a confirm GET, and no settings are extracted; a
\* form post answered 200 ends login() normally, any other answer ends the
\* call with a transport error.
C21_EarlyExit ==
    \A i \in LogIdx :
        (/\ IsSignIn(log[i]) /\ log[i].resp.net = "ok"
         /\ LET p == log[i].resp.body.page IN p.form /\ p.state /\ p.code)
            => /\ sign_in_config = NoConfig
               /\ \A j \in LogIdx : ~IsSelfAsserted(log[j]) /\ ~IsConfirm(log[j])
               /\ IF i = Len(log) THEN pc = "sign_in_form" /\ ~logged_in
                  ELSE /\ IsFormPost(log[i+1])
                       /\ LET r == log[i+1].resp IN
                          IF r.net = "ok" /\ r.status = 200
                          THEN /\ logged_in
                               /\ i + 1 = Len(log) => pc = "get_generator_data"
                               /\ i + 1 < Len(log) => IsListV5(log[i+2])
                          ELSE /\ i + 1 = Len(log)
                               /\ pc = "idle"
                               /\ result.kind = "raise"
                               /\ result.exc \in {"IOError", "ClientError"}
                               /\ ~logged_in

C21_Witness ==
    /\ ReturnedData
    /\ Len(log) >= 3
    /\ IsSignIn(log[1])
    /\ log[1].resp.body.page.form
    /\ IsFormPost(log[2])
    /\ IsListV5(log[3])

\* Place of an apparatus id in the device list of the call
Pos(id) == CHOOSE j \in 1..Len(apparatuses) : apparatuses[j].apparatusId = id

\* C22: the requests of a call are recorded one after the other, each with
\* its answer; the detail requests follow the list requests and come in the
\* order of the device list, and the requests for one apparatus are the v5
\* request and, right after it, the v1 request, before any request for a
\* later apparatus.
C22_Sequential ==
    /\ \A a, b \in LogIdx :
         (a < b /\ IsDetail(log[a]) /\ IsDetail(log[b]))
            => /\ Pos(log[a].id) <= Pos(log[b].id)
               /\ log[a].id = log[b].id
                    => (b = a + 1 /\ IsDetailV5(log[a]) /\ IsDetailV1(log[b]))
    /\ \A a, b \in LogIdx :
         (a < b /\ IsDetail(log[a])) => IsDetail(log[b])
    /\ \A a \in LogIdx :
         IsDetail(log[a])
            => /\ \E j \in 1..Len(apparatuses) : apparatuses[j].apparatusId = log[a].id
               /\ Pos(log[a].id) <= idx
               /\ pc = "detail_v1" => (Pos(log[a].id) < idx \/ a = Len(log))

C22_Witness ==
    /\ ReturnedData
    /\ Len(apparatuses) = 2
    /\ \E a \in LogIdx :
        /\ a + 2 <= Len(log)
        /\ IsDetailV5(log[a]) /\ log[a].id = apparatuses[1].apparatusId
        /\ IsDetailV1(log[a+1]) /\ log[a+1].id = apparatuses[1].apparatusId
        /\ IsDetailV5(log[a+2]) /\ log[a+2].id = apparatuses[2].apparatusId

\* C23: a cookie probe answered 204 is not taken for a dead session: it is
\* not followed by the sign-in GET and does not end the call with an
\* exception; without a username and a password the call ends with
\* InvalidCredentials only after a probe answered with expiry.
C23_NoDataProbeNotExpired ==
    /\ \A i \in LogIdx :
         (IsProbe(log[i]) /\ log[i].resp.net = "ok" /\ log[i].resp.status = 204)
            => /\ i = Len(log) => (pc # "sign_in" /\ ~(pc = "idle" /\ result.kind = "raise"))
               /\ i < Len(log) => ~IsSignIn(log[i+1])
    /\ (/\ auth_method = "cookies"
        /\ ~HasCredentials(username, password)
        /\ pc = "idle" /\ result.kind = "raise"
        /\ result.exc = "InvalidCredentialsException")
            => \E i \in LogIdx : IsProbe(log[i]) /\ Expired(log[i].resp)

\* The call ended with an exception raised by login()
LoginFailed ==
    /\ pc = "idle"
    /\ result.kind = "raise"
    /\ log # <<>> => (IsLoginFlow(log[Len(log)]) \/ IsProbe(log[Len(log)]))

\* C24: a call in which login() failed leaves the flag false and, for the
\* first call of a client, the csrf token as the constructor set it.
C24_FailedLoginKeepsState ==
    LoginFailed => (~logged_in /\ (calls = 1 => csrf = ""))

\* C25: a pass of async_get_data enters login() exactly when the flag is
\* false; the flag becomes true only in the step in which login() returns,
\* with the data fetch next; a request sent while the flag is true is a
\* data request and one sent while it is false is not; the flag is not
\* reset unless a request of the call was answered with expiry.
C25_LoginOnlyWhenLoggedOut ==
    [][ /\ pc = "async_get_data"
            => /\ pc' = IF logged_in THEN "get_generator_data" ELSE "login"
               /\ log' = log
               /\ logged_in' = logged_in
        /\ (~logged_in /\ logged_in')
            => /\ pc \in {"login", "probe", "sign_in_form", "confirmed_form"}
               /\ pc' = "get_generator_data"
        /\ Len(log') = Len(log) + 1
            => (IsData(log'[Len(log')]) <=> logged_in)
        /\ (logged_in /\ ~logged_in')
            => \E i \in 1..Len(log') : Expired(log'[i].resp) ]_vars

C25_Witness ==
    /\ auth_method = "username_password"
    /\ calls = 2
    /\ logged_in
    /\ ReturnedData
    /\ DOMAIN result.map # {}
    /\ \A i \in LogIdx : IsData(log[i])

DataPositions == {"get_generator_data", "list_v2", "loop", "detail_v5", "detail_v1"}

\* C26: no step changes the credential, the auth method or the stored
\* header map, and the stored map never holds X-Csrf-Token; the steps of
\* get_generator_data change neither the flag nor the csrf token, and the
\* probe request does not change the csrf token.
C26_ConfigImmutable ==
    /\ "X-Csrf-Token" \notin DOMAIN headers
    /\ [][ /\ UNCHANGED << username, password, cookies, auth_token, auth_method >>
           /\ headers' = headers
           /\ "X-Csrf-Token" \notin DOMAIN headers'
           /\ pc \in DataPositions => UNCHANGED << logged_in, csrf >>
           /\ pc = "probe" => csrf' = csrf ]_vars

C26_Witness ==
    /\ csrf # ""
    /\ ReturnedData
    /\ DOMAIN result.map # {}
    /\ \E i \in LogIdx : IsDetail(log[i]) /\ CarriesCsrf(log[i], csrf)
    /\ headers = InitHeaders(auth_token, cookies)

\* The type codes a sensor looks for, newer code first
NewerCode ==
    CASE sensor_class = "RunTimeSensor" -> 71
      [] sensor_class = "ProtectionTimeSensor" -> 32
      [] sensor_class = "BatteryVoltageSensor" -> 70
      [] OTHER -> 0
OlderCode ==
    CASE sensor_class = "RunTimeSensor" -> 70
      [] sensor_class = "ProtectionTimeSensor" -> 31
      [] sensor_class = "BatteryVoltageSensor" -> 69
      [] OTHER -> 0

\* Places of the properties of a type, and the first of them
Places(type) == { i \in 1..Len(properties.list) : properties.list[i].type = type }
FirstPlace(type) == CHOOSE i \in Places(type) : \A j \in Places(type) : i <= j

\* A value as the number the sensor reports
AsNumber(v) == IF v.t = "null" THEN v ELSE Num(v.n)

\* C27: a sensor reports the value of the first property of the newer code
\* when that value is not null, else the value of the first property of the
\* older code, else 0; without a properties list it reports 0.
C27_TypeCodeLookup ==
    native # Pending =>
        IF properties.isNone THEN native = Num(0)
        ELSE IF /\ Places(NewerCode) # {}
                /\ properties.list[FirstPlace(NewerCode)].value # NullValue
        THEN native = AsNumber(properties.list[FirstPlace(NewerCode)].value)
        ELSE IF Places(OlderCode) # {}
        THEN native = AsNumber(properties.list[FirstPlace(OlderCode)].value)
        ELSE native = Num(0)

C27_Witness ==
    /\ sensor_class = "RunTimeSensor"
    /\ ~properties.isNone
    /\ Len(properties.list) = 3
    /\ properties.list[1] = [type |-> 71, value |-> NullValue]
    /\ properties.list[2] = [type |-> 70, value |-> Str(7)]
    /\ properties.list[3] = [type |-> 70, value |-> Num(5)]
    /\ native = Num(7)

\* The number stored under a type code
ValueUnder(type) == AsNumber(properties.list[FirstPlace(type)].value)

\* The record has properties of these codes, with values, and none of the others
HasCodes(present, absent) ==
    /\ ~properties.isNone
    /\ \A t \in present :
        /\ Places(t) # {}
        /\ \A i \in Places(t) : properties.list[i].value # NullValue
    /\ \A t \in absent : Places(t) = {}

\* A detail record of the older generation: engine hours under 70, battery
\* voltage under 69; of the newer: engine hours under 71, battery under 70
OlderGeneration == HasCodes({70, 69}, {71})
NewerGeneration == HasCodes({71, 70}, {69})

\* C28: the codes of the two generations are not mixed: on a record of the
\* older generation the battery voltage sensor reports the value under 69
\* and the run time sensor the value under 70; on a record of the newer
\* generation they report the values under 70 and 71.
C28_GenerationsNotMixed ==
    native # Pending =>
        /\ OlderGeneration =>
            /\ sensor_class = "BatteryVoltageSensor" => native = ValueUnder(69)
            /\ sensor_class = "RunTimeSensor" => native = ValueUnder(70)
        /\ NewerGeneration =>
            /\ sensor_class = "BatteryVoltageSensor" => native = ValueUnder(70)
            /\ sensor_class = "RunTimeSensor" => native = ValueUnder(71)

\* C29: an entry exists only after async_get_data, called once on a client
\* built from the submitted input, returned; it records the auth method of
\* the step that created it.  When _test_credentials ends, a returned call
\* creates the entry; InvalidCredentials gives the error "auth" and any
\* other exception "internal", with no entry and the same form shown again.
C29_SetupFlow ==
    /\ [](flow.entry # NoEntry =>
            /\ flow.pc = "created"
            /\ flow.step_id \in AuthMethods
            /\ pc = "idle" /\ result.kind = "return" /\ calls = 1
            /\ username = flow.user_input.username
            /\ password = flow.user_input.password
            /\ cookies = flow.user_input.cookies
            /\ auth_token = flow.user_input.auth_token
            /\ flow.entry.data.auth_method = flow.step_id)
    /\ [][ /\ (flow.entry = NoEntry /\ flow'.entry # NoEntry)
                => (flow.pc = "testing" /\ result.kind = "return")
           /\ (flow.pc = "testing" /\ flow'.pc # "testing")
                => IF result.kind = "return"
                   THEN flow'.pc = "created" /\ flow'.entry # NoEntry
                   ELSE /\ result.kind = "raise"
                        /\ flow'.entry = NoEntry
                        /\ flow'.pc = "form"
                        /\ flow'.step_id = flow.step_id
                        /\ flow'.errors = IF result.exc = "InvalidCredentialsException"
                                          THEN "auth" ELSE "internal" ]_vars

C29_Witness ==
    /\ flow.pc = "created"
    /\ flow.step_id = "cookies"
    /\ flow.errors = "internal"
    /\ flow.entry.data.auth_method = "cookies"
    /\ ReturnedData

====
